---- MODULE Spec2Model ----
(***************************************************************************)
(* A model of camel/models/open_source_model.py (OpenSourceModel, the      *)
(* backend adapter for OpenAI-API-compatible servers) and of               *)
(* examples/role_description/role_generation.py (the role generation       *)
(* demo).                                                                  *)
(*                                                                         *)
(* Python values are records [t |-> <type name>, v |-> <payload>].  A str  *)
(* is a sequence of one-character strings, so that split('/') is computed  *)
(* and not assumed.  A dict is a function whose DOMAIN is its key set.     *)
(* The spec's ConfigurationError and ValidationError are the code's        *)
(* ValueError, its ProtocolError the code's RuntimeError.                  *)
(***************************************************************************)
EXTENDS Integers, Sequences, FiniteSets, TLC

VARIABLES
    obj,            \* per thread: the OpenSourceModel instance it owns
    ctor,           \* per thread: arguments and outcome of the constructor call
    api_base,       \* the module attribute openai.api_base (process-wide)
    pc,             \* per thread: position inside run
    messages,       \* per thread: the argument of the run call in progress
    req,            \* per thread: the last request handed to the endpoint
    answer,         \* per thread: what the endpoint did with that request
    sent,           \* per thread: requests issued by the current/last run call
    result,         \* per thread: outcome of the last finished run call
    streamRead,     \* per thread: value of the last read of the stream property
    overlap,        \* per thread: another run call was in progress during this one
    lastDone,       \* the thread whose run call ended last (0: none yet)
    dpc,            \* demo: position inside main
    num_roles,      \* demo: the argument num_roles
    role_names,     \* demo: names returned by the collaborator
    role_description_dict,  \* demo: descriptions returned by the collaborator
    stdout,         \* demo: what main has printed so far
    dresult         \* demo: outcome of main

adapterVars == <<obj, ctor, api_base, pc, messages, req, answer, sent,
                 result, streamRead, overlap, lastDone>>
demoVars == <<dpc, num_roles, role_names, role_description_dict, stdout, dresult>>
vars == <<obj, ctor, api_base, pc, messages, req, answer, sent, result,
          streamRead, overlap, lastDone, dpc, num_roles, role_names,
          role_description_dict, stdout, dresult>>

---------------------------------------------------------------------------
(* Bounds of the model.                                                    *)

MaxPathLen == 2
MaxMsgs == 1
MaxRoles == 3

---------------------------------------------------------------------------
(* Python values.                                                          *)

None == [t |-> "NoneType", v |-> <<>>]
Str(s) == [t |-> "str", v |-> s]
Bool(b) == [t |-> "bool", v |-> <<b>>]
Float(n) == [t |-> "float", v |-> <<n>>]

\* bool(x), the truth test behind `not x`
Truthy(x) ==
    CASE x.t = "NoneType" -> FALSE
      [] x.t = "str" -> x.v /= <<>>
      [] x.t = "bool" -> x.v[1]
      [] OTHER -> TRUE

\* dict.get(key, default)
Get(d, key, default) == IF key \in DOMAIN d THEN d[key] ELSE default

\* sequences over S of length at most n
SeqsUpTo(S, n) == UNION {[1..k -> S] : k \in 0..n}

---------------------------------------------------------------------------
(* str.split(sep) for a one-character separator: the list of the maximal   *)
(* runs between separators, scanning left to right (never empty).          *)

RECURSIVE SplitFrom(_, _, _, _)
SplitFrom(s, sep, i, cur) ==
    IF i > Len(s) THEN <<cur>>
    ELSE IF s[i] = sep THEN <<cur>> \o SplitFrom(s, sep, i + 1, <<>>)
    ELSE SplitFrom(s, sep, i + 1, Append(cur, s[i]))

Split(s, sep) == SplitFrom(s, sep, 1, <<>>)

\* list[-1]
Last(l) == l[Len(l)]

---------------------------------------------------------------------------
(* The inputs: model descriptors, configuration dictionaries, message      *)
(* lists.                                                                  *)

PathChars == {"/", "a"}
Paths == SeqsUpTo(PathChars, MaxPathLen)
Urls == {<<"u">>, <<"w">>}

\* A ModelType is supplied by the caller: its is_open_source flag and the
\* display names its validate_model_name accepts.
NameRules == {{<<"a">>}, {<<>>, <<"a", "a">>}}
ModelTypes == [is_open_source : BOOLEAN, names : NameRules]

validate_model_name(model_type, model_name) == model_name \in model_type.names

ConfigKeys == {"model_path", "server_url", "stream", "temperature", "model", "messages"}
Absent == [t |-> "absent", v |-> <<>>]

ValuesOf(key) ==
    CASE key = "model_path" -> {Str(p) : p \in Paths}
      [] key = "server_url" -> {Str(<<>>)} \cup {Str(u) : u \in Urls}
      [] key = "stream" -> {Bool(TRUE), Bool(FALSE)}
      [] key = "temperature" -> {Float(1)}
      [] key = "model" -> {Str(<<"a">>)}
      [] key = "messages" -> {Str(<<"m">>)}

\* the dict holding the keys of `choice` that are not Absent
DictOf(choice) ==
    [k \in {c \in DOMAIN choice : choice[c] /= Absent} |-> choice[k]]

\* every dict over `keys`, each key absent or bound to one of its values
ConfigsOver(keys) ==
    {DictOf(choice) : choice \in
        [model_path : IF "model_path" \in keys THEN ValuesOf("model_path") \cup {Absent} ELSE {Absent},
         server_url : IF "server_url" \in keys THEN ValuesOf("server_url") \cup {Absent} ELSE {Absent},
         stream : IF "stream" \in keys THEN ValuesOf("stream") \cup {Absent} ELSE {Absent},
         temperature : IF "temperature" \in keys THEN ValuesOf("temperature") \cup {Absent} ELSE {Absent},
         model : IF "model" \in keys THEN ValuesOf("model") \cup {Absent} ELSE {Absent},
         messages : IF "messages" \in keys THEN ValuesOf("messages") \cup {Absent} ELSE {Absent}]}

Configs == ConfigsOver(ConfigKeys)

ChatMessages == {"user", "assistant"}
MessageLists == SeqsUpTo(ChatMessages, MaxMsgs)

Threads == {1, 2}

---------------------------------------------------------------------------
(* OpenSourceModel.__init__                                                *)

EmptyDict == [k \in {} |-> None]

\* BaseModelBackend.__init__ stores its two arguments
BaseModelBackend_init(model_type, model_config_dict) ==
    [model_type |-> model_type, model_config_dict |-> model_config_dict]

\* mutant: the first segment instead of the last
ModelNameOf_First(model_path) == Split(model_path, "/")[1]

\* self.model_path.split('/')[-1]
ModelNameOf(model_path) == Last(Split(model_path, "/"))

\* mutant: only model_path is dropped
Reassemble_KeepsUrl(d) ==
    [key \in {k \in DOMAIN d : k /= "model_path"} |-> d[key]]

\* the dict comprehension that drops model_path and server_url
Reassemble(d) ==
    [key \in {k \in DOMAIN d : k /= "model_path" /\ k /= "server_url"} |-> d[key]]

\* The constructor: [exc |-> "ValueError"] when it raises, otherwise
\* [exc |-> "none", self |-> the attributes of the new instance].
OpenSourceModel_init(model_type, model_config_dict) ==
    LET base == BaseModelBackend_init(model_type, model_config_dict)
        model_path == Get(base.model_config_dict, "model_path", None)
        model_name == ModelNameOf(model_path.v)
        server_url == Get(base.model_config_dict, "server_url", None)
    IN  IF ~base.model_type.is_open_source THEN [exc |-> "ValueError"]
        ELSE IF ~Truthy(model_path) THEN [exc |-> "ValueError"]
        ELSE IF ~validate_model_name(base.model_type, model_name)
             THEN [exc |-> "ValueError"]
        ELSE IF ~Truthy(server_url) THEN [exc |-> "ValueError"]
        ELSE [exc |-> "none",
              self |-> [model_type |-> base.model_type,
                        model_path |-> model_path,
                        model_name |-> Str(model_name),
                        server_url |-> server_url,
                        model_config_dict |-> Reassemble(base.model_config_dict)]]

\* mutant: the default is True
stream_DefaultTrue(self) == Get(self.model_config_dict, "stream", Bool(TRUE))

\* the stream property: self.model_config_dict.get('stream', False)
stream(self) == Get(self.model_config_dict, "stream", Bool(FALSE))

\* an instance that was never constructed (its fields are never read)
Unbound ==
    [model_type |-> [is_open_source |-> FALSE, names |-> {}],
     model_path |-> None, model_name |-> None, server_url |-> None,
     model_config_dict |-> EmptyDict]

NotCalled ==
    [state |-> "new", model_type |-> [is_open_source |-> FALSE, names |-> {}],
     model_config_dict |-> EmptyDict]

Built(t) == ctor[t].state = "ok"

\* thread t makes its constructor call,
\* OpenSourceModel(model_type, model_config_dict)
Construct(t, model_type, model_config_dict) ==
    /\ ctor[t].state = "new"
    /\ pc[t] = "idle"
    /\ LET r == OpenSourceModel_init(model_type, model_config_dict)
       IN  /\ ctor' = [ctor EXCEPT ![t] =
                 [state |-> IF r.exc = "none" THEN "ok" ELSE r.exc,
                  model_type |-> model_type,
                  model_config_dict |-> model_config_dict]]
           /\ obj' = [obj EXCEPT ![t] = IF r.exc = "none" THEN r.self ELSE Unbound]
    /\ UNCHANGED <<api_base, pc, messages, req, answer, sent, result,
                   streamRead, overlap, lastDone>>
    /\ UNCHANGED demoVars

\* thread t reads adapter.stream
ReadStream(t) ==
    /\ Built(t)
    /\ streamRead' = [streamRead EXCEPT ![t] = stream(obj[t])]
    /\ UNCHANGED <<obj, ctor, api_base, pc, messages, req, answer, sent,
                   result, overlap, lastDone>>
    /\ UNCHANGED demoVars

---------------------------------------------------------------------------
(* OpenSourceModel.run                                                     *)

Exc(name) == [t |-> name, v |-> <<>>]
Return(value) == [kind |-> "return", value |-> value]
Raise(name) == [kind |-> "raise", value |-> Exc(name)]
NoResult == [kind |-> "none", value |-> None]

\* What the endpoint can hand back: a value of some Python type (dict, the
\* client library's dict subclass, a generator, a list, None), or an error.
Payloads == {<<"x">>, <<"y">>}
ResponseTypes == {"dict", "OpenAIObject", "generator", "list"}
Responses == [t : ResponseTypes, v : Payloads] \cup {None}
EndpointOutcomes == {Return(r) : r \in Responses} \cup {Raise("APIError")}

\* mutant: every value passes for a dict
IsDict_Any(response) == TRUE
\* mutant: a list passes for a generator
IsGenerator_OrList(response) == response.t \in {"generator", "list"}

\* isinstance(response, Dict): dict and its subclasses
IsDict(response) == response.t \in {"dict", "OpenAIObject"}
\* isinstance(response, GeneratorType)
IsGenerator(response) == response.t = "generator"

\* openai.api_base before any run wrote it (the library's default)
DefaultApiBase == Str(<<"o">>)

NoRequest ==
    [model |-> None, messages |-> <<>>, params |-> EmptyDict, api_base |-> None]

\* mutant: the wrong attribute is written
EndpointFor_Path(self) == self.model_path

\* the value run assigns to openai.api_base
EndpointFor(self) == self.server_url

\* mutant: the configuration is not spread into the call
BindCreate_NoParams(self, msgs) ==
    IF DOMAIN self.model_config_dict \cap {"messages", "model"} /= {}
    THEN [exc |-> "TypeError"]
    ELSE [exc |-> "none",
          request |-> [model |-> self.model_name,
                       messages |-> msgs,
                       params |-> EmptyDict]]

\* Binding the keyword arguments of
\*   openai.ChatCompletion.create(messages=..., model=..., **self.model_config_dict):
\* a key of the dict that repeats an explicit keyword is a TypeError raised
\* by the call itself, before the library runs.
BindCreate(self, msgs) ==
    IF DOMAIN self.model_config_dict \cap {"messages", "model"} /= {}
    THEN [exc |-> "TypeError"]
    ELSE [exc |-> "none",
          request |-> [model |-> self.model_name,
                       messages |-> msgs,
                       params |-> self.model_config_dict]]

\* the shape check on the response and the return
CheckShape(self, response) ==
    IF ~Truthy(stream(self))
    THEN IF ~IsDict(response) THEN Raise("RuntimeError") ELSE Return(response)
    ELSE IF ~IsGenerator(response) THEN Raise("RuntimeError") ELSE Return(response)

\* mutant: a failed call is tried a second time
RunTail_Retry(self, msgs, base, outcome) ==
    LET b == BindCreate(self, msgs)
        first == IF outcome.kind = "raise" THEN outcome
                 ELSE CheckShape(self, outcome.value)
    IN  IF b.exc /= "none"
        THEN [result |-> Raise(b.exc), issued |-> 0, request |-> NoRequest,
              response |-> NoResult, api_base |-> base]
        ELSE [result |-> first,
              issued |-> IF first.kind = "raise" THEN 2 ELSE 1,
              request |-> [model |-> b.request.model,
                           messages |-> b.request.messages,
                           params |-> b.request.params,
                           api_base |-> base],
              response |-> outcome,
              api_base |-> base]

\* mutant: the endpoint is put back to the library's default when run ends
RunTail_Restore(self, msgs, base, outcome) ==
    LET b == BindCreate(self, msgs)
    IN  IF b.exc /= "none"
        THEN [result |-> Raise(b.exc), issued |-> 0, request |-> NoRequest,
              response |-> NoResult, api_base |-> DefaultApiBase]
        ELSE [result |-> IF outcome.kind = "raise" THEN outcome
                         ELSE CheckShape(self, outcome.value),
              issued |-> 1,
              request |-> [model |-> b.request.model,
                           messages |-> b.request.messages,
                           params |-> b.request.params,
                           api_base |-> base],
              response |-> outcome,
              api_base |-> DefaultApiBase]

\* run from the create call on: `base` is openai.api_base as the library
\* reads it, `outcome` what the endpoint does with the request.  Gives the
\* call's result, the requests it issued (the last one kept) and the value
\* openai.api_base is left with.
RunTail(self, msgs, base, outcome) ==
    LET b == BindCreate(self, msgs)
    IN  IF b.exc /= "none"
        THEN [result |-> Raise(b.exc), issued |-> 0, request |-> NoRequest,
              response |-> NoResult, api_base |-> base]
        ELSE [result |-> IF outcome.kind = "raise" THEN outcome
                         ELSE CheckShape(self, outcome.value),
              issued |-> 1,
              request |-> [model |-> b.request.model,
                           messages |-> b.request.messages,
                           params |-> b.request.params,
                           api_base |-> base],
              response |-> outcome,
              api_base |-> base]

Running(t) == pc[t] /= "idle"

\* thread t enters run(msgs): import openai; openai.api_base = self.server_url
RunStart(t, msgs) ==
    /\ Built(t)
    /\ pc[t] = "idle"
    /\ api_base' = EndpointFor(obj[t])
    /\ pc' = [pc EXCEPT ![t] = "create"]
    /\ messages' = [messages EXCEPT ![t] = msgs]
    /\ sent' = [sent EXCEPT ![t] = 0]
    /\ result' = [result EXCEPT ![t] = NoResult]
    /\ answer' = [answer EXCEPT ![t] = NoResult]
    /\ overlap' = [u \in Threads |->
                     IF \E o \in Threads \ {t} : Running(o)
                     THEN (u = t \/ Running(u) \/ overlap[u])
                     ELSE (u /= t /\ overlap[u])]
    /\ UNCHANGED <<obj, ctor, req, streamRead, lastDone>>
    /\ UNCHANGED demoVars

\* thread t's create call is made, answered and checked; run ends
RunComplete(t, outcome) ==
    /\ pc[t] = "create"
    /\ LET r == RunTail(obj[t], messages[t], api_base, outcome)
       IN  /\ result' = [result EXCEPT ![t] = r.result]
           /\ sent' = [sent EXCEPT ![t] = sent[t] + r.issued]
           /\ req' = [req EXCEPT ![t] = IF r.issued > 0 THEN r.request ELSE req[t]]
           /\ answer' = [answer EXCEPT ![t] = r.response]
           /\ api_base' = r.api_base
    /\ pc' = [pc EXCEPT ![t] = "idle"]
    /\ lastDone' = t
    /\ UNCHANGED <<obj, ctor, messages, streamRead, overlap>>
    /\ UNCHANGED demoVars

---------------------------------------------------------------------------
(* examples/role_description/role_generation.py: main                      *)

RoleNames == {"a", "b"}
TaskPrompt == "Develop a trading bot for the stock market."

\* what RoleAssignmentAgent.run_role_with_description can return: the names
\* and a dict describing some of them
DescriptionDicts ==
    UNION {[D -> {"d"}] : D \in SUBSET RoleNames}

\* lines 35-36: the two header lines
Header(n) == <<[line |-> "task", text |-> TaskPrompt], [line |-> "count", n |-> n]>>

\* mutant: only too few names are rejected
LengthMismatch_TooFew(names, n) == Len(names) < n

\* line 31: len(role_names) != num_roles
LengthMismatch(names, n) == Len(names) /= n

\* main calls the collaborator and receives its return value
DemoCall(names, descriptions) ==
    /\ dpc = "call"
    /\ role_names' = names
    /\ role_description_dict' = descriptions
    /\ dpc' = "check"
    /\ UNCHANGED <<num_roles, stdout, dresult>>
    /\ UNCHANGED adapterVars

\* lines 31-36: the length check, then the header lines
DemoCheck ==
    /\ dpc = "check"
    /\ IF LengthMismatch(role_names, num_roles)
       THEN /\ dresult' = Raise("ValueError")
            /\ dpc' = "done"
            /\ UNCHANGED stdout
       ELSE /\ stdout' = stdout \o Header(num_roles)
            /\ dpc' = "loop"
            /\ UNCHANGED dresult
    /\ UNCHANGED <<num_roles, role_names, role_description_dict>>
    /\ UNCHANGED adapterVars

\* the number of role blocks printed so far
Blocks(out) == Len(SelectSeq(out, LAMBDA l : l.line = "role"))

\* lines 37-39: one iteration of the loop, or its end
DemoLoop ==
    /\ dpc = "loop"
    /\ LET i == Blocks(stdout) + 1
       IN  IF i > Len(role_names)
           THEN /\ dresult' = Return(None)
                /\ dpc' = "done"
                /\ UNCHANGED stdout
           ELSE IF role_names[i] \notin DOMAIN role_description_dict
           THEN /\ dresult' = Raise("KeyError")
                /\ dpc' = "done"
                /\ UNCHANGED stdout
           ELSE /\ stdout' = Append(stdout,
                       [line |-> "role", name |-> role_names[i],
                        text |-> role_description_dict[role_names[i]]])
                /\ UNCHANGED <<dpc, dresult>>
    /\ UNCHANGED <<num_roles, role_names, role_description_dict>>
    /\ UNCHANGED adapterVars

---------------------------------------------------------------------------
(* The specifications.                                                     *)

InitAdapters ==
    /\ obj = [t \in Threads |-> Unbound]
    /\ ctor = [t \in Threads |-> NotCalled]
    /\ api_base = DefaultApiBase
    /\ pc = [t \in Threads |-> "idle"]
    /\ messages = [t \in Threads |-> <<>>]
    /\ req = [t \in Threads |-> NoRequest]
    /\ answer = [t \in Threads |-> NoResult]
    /\ sent = [t \in Threads |-> 0]
    /\ result = [t \in Threads |-> NoResult]
    /\ streamRead = [t \in Threads |-> None]
    /\ overlap = [t \in Threads |-> FALSE]
    /\ lastDone = 0

InitDemoIdle ==
    /\ dpc = "off"
    /\ num_roles = 0
    /\ role_names = <<>>
    /\ role_description_dict = [k \in {} |-> "d"]
    /\ stdout = <<>>
    /\ dresult = NoResult

\* one adapter, one thread: construction, reads of stream, runs in sequence
Init == InitAdapters /\ InitDemoIdle

Next ==
    \/ \E mt \in ModelTypes, cfg \in Configs : Construct(1, mt, cfg)
    \/ ReadStream(1)
    \/ \E msgs \in MessageLists : RunStart(1, msgs)
    \/ \E o \in EndpointOutcomes : RunComplete(1, o)

Spec == Init /\ [][Next]_vars

\* two threads, each with its own adapter, whose run calls may overlap
ConcType == [is_open_source |-> TRUE, names |-> {<<"a">>}]
ConcConfigs ==
    {c \in ConfigsOver({"model_path", "server_url", "stream"}) :
        Get(c, "model_path", None) \in {None, Str(<<"a">>)}}
ConcOutcomes ==
    {Return([t |-> "dict", v |-> <<"x">>]),
     Return([t |-> "generator", v |-> <<"x">>]),
     Raise("APIError")}
ConcMessages == {<<"user">>}

NextConc ==
    \E t \in Threads :
        \/ \E cfg \in ConcConfigs : Construct(t, ConcType, cfg)
        \/ \E msgs \in ConcMessages : RunStart(t, msgs)
        \/ \E o \in ConcOutcomes : RunComplete(t, o)

SpecConc == Init /\ [][NextConc]_vars

\* the demo: main(model_type, num_roles) for every num_roles and every
\* return value of the collaborator within the bounds
InitDemo ==
    /\ InitAdapters
    /\ dpc = "call"
    /\ num_roles \in 0..MaxRoles
    /\ role_names = <<>>
    /\ role_description_dict = [k \in {} |-> "d"]
    /\ stdout = <<>>
    /\ dresult = NoResult

NextDemo ==
    \/ \E names \in SeqsUpTo(RoleNames, MaxRoles), d \in DescriptionDicts :
          DemoCall(names, d)
    \/ DemoCheck
    \/ DemoLoop

SpecDemo == InitDemo /\ [][NextDemo]_vars

---------------------------------------------------------------------------
(* The properties.  They are stated over the arguments the calls were      *)
(* given (ctor, messages, answer) and in the spec's terms, not through the *)
(* operators that model the code.                                          *)

\* the arguments of thread t's constructor call
GivenType(t) == ctor[t].model_type
GivenConfig(t) == ctor[t].model_config_dict

\* the part of a path after its last '/', the whole path when it has none
FinalSegment(path) ==
    LET n == Len(path)
        k == CHOOSE j \in 0..n :
                /\ \A i \in (n - j + 1)..n : path[i] /= "/"
                /\ (j = n \/ path[n - j] = "/")
    IN  SubSeq(path, n - k + 1, n)

MissingOrEmpty(cfg, key) == key \notin DOMAIN cfg \/ cfg[key].v = <<>>

MustFail(mt, cfg) ==
    \/ ~mt.is_open_source
    \/ MissingOrEmpty(cfg, "model_path")
    \/ FinalSegment(cfg["model_path"].v) \notin mt.names
    \/ MissingOrEmpty(cfg, "server_url")

Stripped == {"model_path", "server_url"}
Colliding == {"model", "messages"}

StreamOn(t) == "stream" \in DOMAIN GivenConfig(t) /\ GivenConfig(t)["stream"] = Bool(TRUE)
Finished(t) == result[t].kind /= "none"
Answered(t) == Finished(t) /\ sent[t] >= 1 /\ answer[t].kind = "return"
Mappings == {"dict", "OpenAIObject"}
LazySequences == {"generator"}

\* C1: the constructor raises ValueError exactly when the descriptor is not
\* open-source, or model_path is missing or empty, or the final segment of
\* model_path does not validate, or server_url is missing or empty; for
\* every other pair of arguments it succeeds.
C1_ConstructionFailsExactly ==
    \A t \in Threads :
        ctor[t].state /= "new" =>
            /\ ctor[t].state = "ValueError" <=> MustFail(GivenType(t), GivenConfig(t))
            /\ ctor[t].state = "ok" <=> ~MustFail(GivenType(t), GivenConfig(t))

\* a construction that fails only because the LAST segment of a path with
\* several segments does not validate, though its first segment would
C1_Witness ==
    /\ ctor[1].state = "ValueError"
    /\ GivenType(1).is_open_source
    /\ ~MissingOrEmpty(GivenConfig(1), "server_url")
    /\ ~MissingOrEmpty(GivenConfig(1), "model_path")
    /\ GivenConfig(1)["model_path"].v = <<"a", "/">>
    /\ <<"a">> \in GivenType(1).names

\* C2: the configuration a constructed adapter retains holds neither
\* model_path nor server_url, holds every other supplied key with its
\* original value, and holds no key that was not supplied.
C2_RetainedConfiguration ==
    \A t \in Threads :
        Built(t) =>
            LET kept == obj[t].model_config_dict
                given == GivenConfig(t)
            IN  /\ DOMAIN kept \cap Stripped = {}
                /\ \A k \in DOMAIN given \ Stripped :
                        k \in DOMAIN kept /\ kept[k] = given[k]
                /\ DOMAIN kept \subseteq DOMAIN given

C2_Witness ==
    /\ Built(1)
    /\ {"stream", "temperature"} \subseteq DOMAIN GivenConfig(1)
    /\ DOMAIN obj[1].model_config_dict = {"stream", "temperature"}

\* C3: with stream false or absent, a run whose request the endpoint
\* answered with a value returns that value unchanged when it is a mapping
\* and raises RuntimeError when it is not; it never returns a non-mapping.
C3_BatchShape ==
    \A t \in Threads :
        (Finished(t) /\ ~StreamOn(t)) =>
            /\ Answered(t) =>
                 IF answer[t].value.t \in Mappings
                 THEN result[t] = Return(answer[t].value)
                 ELSE result[t] = Raise("RuntimeError")
            /\ result[t].kind = "return" => result[t].value.t \in Mappings

\* a batch run that was handed a generator and raised
C3_Witness ==
    /\ Answered(1) /\ ~StreamOn(1)
    /\ answer[1].value.t = "generator"
    /\ result[1] = Raise("RuntimeError")

StreamValueAsConfigured ==
    \A t \in Threads :
        streamRead[t] /= None =>
            streamRead[t] = IF "stream" \in DOMAIN GivenConfig(t)
                            THEN GivenConfig(t)["stream"] ELSE Bool(FALSE)

\* C5: a read of stream gives False when the configuration has no stream
\* key and the configured boolean otherwise, and the read changes neither
\* the adapter nor the shared endpoint.
C5_StreamRead ==
    /\ []StreamValueAsConfigured
    /\ [][\A t \in Threads :
            streamRead'[t] /= streamRead[t] =>
                /\ obj' = obj
                /\ api_base' = api_base]_vars

\* stream was read on an adapter whose configuration has no stream key,
\* after a run had already moved the shared endpoint
C5_Witness ==
    /\ "stream" \notin DOMAIN GivenConfig(1)
    /\ streamRead[1] = Bool(FALSE)
    /\ Finished(1)

\* the request of thread t's finished run is the one the claim describes
RequestAsDerived(t) ==
    LET given == GivenConfig(t)
    IN  /\ req[t].model = Str(FinalSegment(given["model_path"].v))
        /\ req[t].messages = messages[t]
        /\ DOMAIN req[t].params = DOMAIN given \ Stripped
        /\ \A k \in DOMAIN req[t].params : req[t].params[k] = given[k]

\* C6 as stated: whatever additional keys the configuration carries, every
\* run issues a request with model = model_name, messages = the argument
\* and the retained configuration as the other parameters.
C6_AsStated ==
    \A t \in Threads :
        Finished(t) => (sent[t] = 1 /\ RequestAsDerived(t))

\* C6 as amended: a run on an adapter whose configuration has no key named
\* model or messages issues that request; with such a key the call raises
\* TypeError and no request is issued.
C6_RequestContents ==
    \A t \in Threads :
        Finished(t) =>
            IF DOMAIN GivenConfig(t) \cap Colliding = {}
            THEN sent[t] = 1 /\ RequestAsDerived(t)
            ELSE sent[t] = 0 /\ result[t] = Raise("TypeError")

\* a request that carried two pass-through keys, for a model named by the
\* last segment of a path with two segments
C6_Witness ==
    /\ Finished(1) /\ sent[1] = 1
    /\ DOMAIN req[1].params = {"stream", "temperature"}
    /\ GivenConfig(1)["model_path"].v = <<"/", "a">>
    /\ req[1].model = Str(<<"a">>)
    /\ req[1].messages /= <<>>

\* C7: a request of a run that no other run overlapped is issued while the
\* shared endpoint holds the calling adapter's server_url (the witness is
\* the race: a request issued while it holds the other adapter's).
C7_EndpointWhenNotOverlapped ==
    \A t \in Threads :
        (sent[t] >= 1 /\ ~overlap[t]) => req[t].api_base = obj[t].server_url

C7_Witness ==
    /\ Built(1) /\ Built(2)
    /\ obj[1].server_url /= obj[2].server_url
    /\ sent[1] >= 1 /\ overlap[1]
    /\ req[1].api_base = obj[2].server_url

\* C9 as stated: every run issues exactly one request, whatever its outcome.
C9_AsStated ==
    \A t \in Threads : Finished(t) => sent[t] = 1

\* C9 as amended: every run issues at most one request, and exactly one
\* unless the configuration has a key named model or messages (then the
\* call raises TypeError with none issued); an error of the endpoint and a
\* RuntimeError of the shape check are the run's outcome, with no second
\* request.
C9_AtMostOneRequest ==
    \A t \in Threads :
        /\ sent[t] <= 1
        /\ Finished(t) =>
             /\ sent[t] = 1 <=> DOMAIN GivenConfig(t) \cap Colliding = {}
             /\ sent[t] = 0 => result[t] = Raise("TypeError")
             /\ (sent[t] = 1 /\ answer[t].kind = "raise") => result[t] = answer[t]

\* a run that failed on the endpoint's error after its one request
C9_Witness ==
    /\ Finished(1) /\ sent[1] = 1
    /\ answer[1] = Raise("APIError")
    /\ result[1] = Raise("APIError")

\* with no run in progress, and the last run not overlapped, the endpoint
\* is the server_url of the adapter that ran last
EndpointOfLastRun ==
    (lastDone /= 0 /\ ~overlap[lastDone] /\ \A t \in Threads : ~Running(t)) =>
        api_base = obj[lastDone].server_url

\* C10: when a run that no other run overlapped ends, returning or
\* raising, the shared endpoint equals its adapter's server_url; so with no
\* run in progress the endpoint equals the server_url of the adapter that
\* ran last; and a run leaves the adapter's own fields unchanged.
C10_EndpointNotRestored ==
    /\ []EndpointOfLastRun
    /\ [][\A t \in Threads :
            (Running(t) /\ ~Running(t)' /\ ~overlap[t]) =>
                api_base' = obj[t].server_url]_vars
    /\ [][\A t \in Threads : pc'[t] /= pc[t] => obj' = obj]_vars

\* both adapters have run, one after the other, the second one raising, and
\* the endpoint is the second one's and not the first one's
C10_Witness ==
    /\ Built(1) /\ Built(2)
    /\ obj[1].server_url /= obj[2].server_url
    /\ Finished(1) /\ Finished(2)
    /\ ~overlap[1] /\ ~overlap[2]
    /\ lastDone = 2 /\ result[2].kind = "raise"
    /\ api_base = obj[2].server_url

\* what main prints when it succeeds: the two header lines, then one block
\* per returned name, in the returned order
ExpectedOutput ==
    <<[line |-> "task", text |-> TaskPrompt], [line |-> "count", n |-> num_roles]>>
    \o [i \in 1..Len(role_names) |->
          [line |-> "role", name |-> role_names[i],
           text |-> role_description_dict[role_names[i]]]]

\* C8: main raises ValueError, having printed nothing, whenever the
\* collaborator returns a number of names other than num_roles; when it
\* returns exactly num_roles names, each with a description, main succeeds
\* and has printed the header lines and one block per name, in order.
C8_DemoCountCheck ==
    dpc = "done" =>
        /\ Len(role_names) /= num_roles =>
              (dresult = Raise("ValueError") /\ stdout = <<>>)
        /\ (/\ Len(role_names) = num_roles
            /\ \A i \in 1..Len(role_names) :
                  role_names[i] \in DOMAIN role_description_dict) =>
              (dresult = Return(None) /\ stdout = ExpectedOutput)

\* three roles were asked for and three blocks were printed
C8_Witness ==
    /\ dpc = "done"
    /\ num_roles = 3
    /\ dresult = Return(None)
    /\ Blocks(stdout) = 3
    /\ role_names[1] /= role_names[2]

====
